---- MODULE Spec2Model ----
(***************************************************************************)
(* Model of the AccessPlanIt fetch utilities:                              *)
(*   - fetch-course-data.js   (src/fetch-course-data.js lines 1-204)       *)
(*   - fetch-help-endpoints.js (src/fetch-course-data.js lines 206-366)    *)
(*   - scheduler.js           (src/scheduler.js)                           *)
(* A one-shot run is a Node process: each action below is one turn of its  *)
(* event loop (the synchronous code up to the next await).  The remote API *)
(* and the file system are the environment: their answers are inputs.      *)
(* Strings the code builds are sequences of tokens (characters where the   *)
(* code looks at characters).  The HH:MM:SS prefix that log() puts before  *)
(* every message is left out of the log entries.                           *)
(***************************************************************************)
EXTENDS Integers, Sequences, FiniteSets, TLC

\* ---------------------------------------------------------------- bounds
NProcs == 2         \* one-shot runs that can be started in RunsSpec
MaxAdvance == 1     \* milliseconds the clock may advance after its start
MaxSpawns == 3      \* children the scheduler spawns before the model stops it

VARIABLES
    proc,           \* proc[p]: one run of a one-shot script
    log,            \* log[p]: the entries the run has logged
    http,           \* the HTTP exchanges issued so far, with their answers
    files,          \* the files under output/: {[path, body]}
    writes,         \* every writeFileSync performed: who, where, when
    outputDir,      \* does the output/ directory exist
    clock,          \* the wall clock, in ms since the epoch
    sched,          \* the scheduler process
    child,          \* child[c]: the c-th process spawned by the scheduler
    schedLog        \* schedLog[m]: how many times the scheduler logged m

runVars == <<proc, log, http, files, writes, outputDir, clock>>
schedVars == <<sched, child, schedLog>>
vars == <<proc, log, http, files, writes, outputDir, clock, sched, child, schedLog>>

Procs == 1..NProcs

\* ------------------------------------------------------- values and inputs
Undefined == "<undefined>"
Falsy(v) == v \in {Undefined, ""}

apiConfig ==
    [tokenEndpoint |-> "/api/v2/token",
     courseDatesEndpoint |-> "/api/v2/coursedate",
     courseTemplatesEndpoint |-> "/api/v2/coursetemplate",
     courseDateHelp |-> "/apihelp/v2/modules/courseDate",
     courseTemplateHelp |-> "/apihelp/v2/modules/courseTemplate"]

Scripts == {"fetch-course-data", "fetch-help-endpoints"}

\* process.env as the run sees it
EnvValues == {Undefined, "", "alice"}
Envs == [user : EnvValues, pass : EnvValues]
GoodEnv == [user |-> "alice", pass |-> "alice"]

\* a number as JavaScript has it here: an integer or NaN
Num(n) == [nan |-> FALSE, n |-> n]
NaN == [nan |-> TRUE, n |-> 0]
NoNum == [nan |-> FALSE, n |-> -1]    \* "no such parameter" in an http record

\* command line tokens are sequences of characters; the flag is one token
LimitFlag == <<"--limit">>
Argvs ==
    { <<>>,
      <<LimitFlag>>,
      <<LimitFlag, <<"5">>>>,
      <<LimitFlag, <<"1", "2">>>>,
      <<LimitFlag, <<"0">>>>,
      <<LimitFlag, <<"-", "3">>>>,
      <<LimitFlag, <<>>>>,
      <<LimitFlag, <<"a", "b", "c">>>>,
      <<LimitFlag, <<"5", "x">>>>,
      <<LimitFlag, <<" ", "7">>>>,
      <<LimitFlag, <<"0", "x", "1", "a">>>>,
      <<<<"v">>, LimitFlag, <<"7">>>> }

\* JSON bodies of a 200 answer
Body(isNull, hasResults, n) == [isNull |-> isNull, hasResults |-> hasResults, n |-> n]
NullBody == Body(TRUE, FALSE, 0)
NoBody == Body(FALSE, FALSE, -1)
Bodies == {NullBody, Body(FALSE, FALSE, 0), Body(FALSE, TRUE, 0), Body(FALSE, TRUE, 3)}

\* access_token values of a 200 answer of the token endpoint
AccessTokens == {"tok"}

\* an HTTP answer: status 0 is "no response" (network error), -1 is "pending"
Pending == [status |-> -1, body |-> NoBody, token |-> Undefined]
NetworkError == [status |-> 0, body |-> NoBody, token |-> Undefined]
HttpError(s) == [status |-> s, body |-> NoBody, token |-> Undefined]
TokenOk(t) == [status |-> 200, body |-> NoBody, token |-> t]
GetOk(b) == [status |-> 200, body |-> b, token |-> Undefined]
TokenAnswers == {TokenOk(t) : t \in AccessTokens} \cup {HttpError(401), NetworkError}
GetAnswers == {GetOk(b) : b \in Bodies} \cup {HttpError(500), NetworkError}
Failed(answer) == answer.status # 200

\* what the file system does when a job saves its answer
FsOutcomes == {"ok", "mkdirThrows", "writeThrows"}

\* ------------------------------------------------------------------ log()
Entry(level, msg, subject, arg) ==
    [level |-> level, msg |-> msg, subject |-> subject, arg |-> arg]

NumStr(x) == IF x.nan THEN "NaN" ELSE ToString(x.n)

\* error.message of an axios error
ErrorMessage(answer) ==
    IF answer.status = 0 THEN "Network Error"
    ELSE "Request failed with status code"

\* the lines a catch block logs for an axios error: message, then status and data
\* only when the error carries a response
ErrorLines(what, subject, answer) ==
    {Entry("error", what, subject, ErrorMessage(answer))}
    \cup (IF answer.status # 0
          THEN {Entry("error", "Response status", subject, ToString(answer.status)),
                Entry("error", "Response data", subject, "")}
          ELSE {})

\* --------------------------------------------------------- argument parsing
Digits == {"0", "1", "2", "3", "4", "5", "6", "7", "8", "9"}
HexDigits == Digits \cup {"a", "b", "c", "d", "e", "f"}
DigitVal(c) ==
    CASE c = "0" -> 0 [] c = "1" -> 1 [] c = "2" -> 2 [] c = "3" -> 3 [] c = "4" -> 4
      [] c = "5" -> 5 [] c = "6" -> 6 [] c = "7" -> 7 [] c = "8" -> 8 [] c = "9" -> 9
      [] c = "a" -> 10 [] c = "b" -> 11 [] c = "c" -> 12 [] c = "d" -> 13
      [] c = "e" -> 14 [] c = "f" -> 15

RECURSIVE SkipSpace(_)
SkipSpace(s) == IF s # <<>> /\ Head(s) = " " THEN SkipSpace(Tail(s)) ELSE s

\* the longest prefix of s made of characters of set
RECURSIVE TakeWhile(_, _)
TakeWhile(s, set) ==
    IF s # <<>> /\ Head(s) \in set THEN <<Head(s)>> \o TakeWhile(Tail(s), set) ELSE <<>>

RECURSIVE ValueIn(_, _, _)
ValueIn(ds, radix, acc) ==
    IF ds = <<>> THEN acc ELSE ValueIn(Tail(ds), radix, acc * radix + DigitVal(Head(ds)))

\* JavaScript parseInt(string) without a radix
parseInt(str) ==
    LET s0 == SkipSpace(str)
        neg == s0 # <<>> /\ Head(s0) = "-"
        s1 == IF s0 # <<>> /\ Head(s0) \in {"-", "+"} THEN Tail(s0) ELSE s0
        hex == Len(s1) >= 2 /\ s1[1] = "0" /\ s1[2] \in {"x", "X"}
        s2 == IF hex THEN Tail(Tail(s1)) ELSE s1
        ds == TakeWhile(s2, IF hex THEN HexDigits ELSE Digits)
        v == ValueIn(ds, IF hex THEN 16 ELSE 10, 0)
    IN  IF ds = <<>> THEN NaN ELSE Num(IF neg THEN 0 - v ELSE v)

\* args.indexOf(x), 0-based, -1 when absent
indexOf(args, x) ==
    IF \E i \in DOMAIN args : args[i] = x
    THEN (CHOOSE i \in DOMAIN args : args[i] = x /\ \A k \in 1..(i - 1) : args[k] # x) - 1
    ELSE -1

DefaultLimit == 10

\* const limit = limitIndex !== -1 && args[limitIndex + 1] ? parseInt(...) : 10
\* (args[i] past the end is undefined, and undefined and '' are falsy)
ParseLimit(args) ==
    LET limitIndex == indexOf(args, LimitFlag)
        at == limitIndex + 2      \* args[limitIndex + 1], 1-based
    IN  IF limitIndex # -1 /\ at \in DOMAIN args /\ args[at] # <<>>
        THEN parseInt(args[at])
        ELSE Num(DefaultLimit)

\* ------------------------------------------------------------ file names
Pad2(n) == <<ToString(n \div 10), ToString(n % 10)>>
Pad3(n) == <<ToString(n \div 100)>> \o Pad2(n % 100)

\* new Date(t).toISOString(), for t within January 1970
toISOString(t) ==
    <<"1", "9", "7", "0", "-", "0", "1", "-">> \o Pad2(1 + t \div 86400000) \o <<"T">>
    \o Pad2((t \div 3600000) % 24) \o <<":">> \o Pad2((t \div 60000) % 60) \o <<":">>
    \o Pad2((t \div 1000) % 60) \o <<".">> \o Pad3(t % 1000) \o <<"Z">>

\* .replace(/[:.]/g, '-')
Sanitize(s) == [i \in DOMAIN s |-> IF s[i] \in {":", "."} THEN "-" ELSE s[i]]

\* (variant: the timestamp is cut after the seconds)
FileTimestampSeconds(t) == Sanitize(SubSeq(toISOString(t), 1, 19))

\* new Date().toISOString().replace(/[:.]/g, '-')
FileTimestamp(t) == Sanitize(toISOString(t))

OutputPath(kind, timestamp) == <<"output/", kind, "-">> \o timestamp \o <<".json">>

\* ------------------------------------------------------------ the two jobs
\* the two fetch jobs of a script, in the order main passes them to allSettled
JobsOf(script) ==
    IF script = "fetch-course-data"
    THEN <<[kind |-> "course-templates", label |-> "course templates",
            title |-> "Course Templates",
            endpoint |-> apiConfig.courseTemplatesEndpoint,
            hasParams |-> TRUE, orderby |-> "Name asc"],
           [kind |-> "course-dates", label |-> "course dates",
            title |-> "Course Dates",
            endpoint |-> apiConfig.courseDatesEndpoint,
            hasParams |-> TRUE, orderby |-> "StartDate asc"]>>
    ELSE <<[kind |-> "course-date-help", label |-> "course-date-help",
            title |-> "Course Date Help",
            endpoint |-> apiConfig.courseDateHelp,
            hasParams |-> FALSE, orderby |-> ""],
           [kind |-> "course-template-help", label |-> "course-template-help",
            title |-> "Course Template Help",
            endpoint |-> apiConfig.courseTemplateHelp,
            hasParams |-> FALSE, orderby |-> ""]>>

JobIds == {1, 2}

\* a promise of a job: pending, or settled with the value the job returned
PendingJob == [status |-> "pending", value |-> "none"]
NotStarted == [status |-> "none", value |-> "none"]

\* axios.post(token endpoint, qs.stringify({grant_type, username, password}))
TokenRequest(p, env) ==
    [proc |-> p, method |-> "POST", endpoint |-> apiConfig.tokenEndpoint,
     job |-> 0, auth |-> Undefined, user |-> env.user, pass |-> env.pass,
     hasParams |-> FALSE, top |-> NoNum, orderby |-> "", answer |-> Pending]

\* axios.get(endpoint, {headers: {Authorization: `Bearer ${token}`}, params})
GetRequest(p, j, job, token, limit) ==
    [proc |-> p, method |-> "GET", endpoint |-> job.endpoint,
     job |-> j, auth |-> token, user |-> Undefined, pass |-> Undefined,
     hasParams |-> job.hasParams,
     top |-> IF job.hasParams THEN limit ELSE NoNum,
     orderby |-> job.orderby, answer |-> Pending]

\* the exchange of run p for job j (0: the token exchange)
Exchange(p, j) == CHOOSE r \in http : r.proc = p /\ r.job = j
Issued(p, j) == \E r \in http : r.proc = p /\ r.job = j
Answer(p, j, answer) ==
    (http \ {Exchange(p, j)}) \cup {[Exchange(p, j) EXCEPT !.answer = answer]}

\* ------------------------------------------------------------- main, step 1
\* (variant: only the user name is checked)
CredsMissingUserOnly(env) == Falsy(env.user)

\* if (!process.env.ACCESS_PLANIT_USER || !process.env.ACCESS_PLANIT_PASS)
CredsMissing(env) == Falsy(env.user) \/ Falsy(env.pass)

\* main() up to its first await: the environment check, the argument parsing and
\* the call of getToken(), which logs and issues the POST
MainStart(p) ==
    /\ proc[p].pc = "start"
    /\ LET me == proc[p]
           data == me.script = "fetch-course-data"
           limit == IF data THEN ParseLimit(me.argv) ELSE me.limit
           starting == {Entry("info", "Starting", me.script, "")}
       IN  IF CredsMissing(me.env)
           THEN /\ log' = [log EXCEPT ![p] = @ \cup starting \cup
                            {Entry("error", "Missing required environment variables", "", ""),
                             Entry("error", "Create a .env file with these values", "", "")}]
                /\ proc' = [proc EXCEPT ![p].pc = "exited", ![p].exitCode = 1]
                /\ UNCHANGED http
           ELSE /\ log' = [log EXCEPT ![p] = @ \cup starting \cup
                            (IF data THEN {Entry("info", "Using limit", "", NumStr(limit))}
                             ELSE {})
                            \cup {Entry("info", "Fetching API token...", "", "")}]
                /\ proc' = [proc EXCEPT ![p].pc = "token", ![p].limit = limit]
                /\ http' = http \cup {TokenRequest(p, me.env)}
    /\ UNCHANGED <<files, writes, outputDir, clock>>
    /\ UNCHANGED schedVars

\* ------------------------------------------------- main, after await getToken
\* the token arrived: getToken returns it and main calls both jobs, each of which
\* logs and issues its GET before main awaits Promise.allSettled
TokenSucceeded(p, answer) ==
    LET me == proc[p]
        jobs == JobsOf(me.script)
    IN  /\ log' = [log EXCEPT ![p] = @
                    \cup {Entry("success", "API token retrieved successfully", "", "")}
                    \cup {Entry("info", "Fetching", jobs[j].label,
                                IF jobs[j].hasParams THEN NumStr(me.limit) ELSE "")
                          : j \in JobIds}]
        /\ proc' = [proc EXCEPT ![p].pc = "jobs", ![p].token = answer.token,
                                ![p].jobs = [j \in JobIds |-> PendingJob]]
        /\ http' = Answer(p, 0, answer)
                   \cup {GetRequest(p, j, jobs[j], answer.token, me.limit) : j \in JobIds}

\* (variant: getToken's catch logs and does not throw, so main goes on without a token)
TokenFailedContinues(p, answer) ==
    LET me == proc[p]
        jobs == JobsOf(me.script)
    IN  /\ log' = [log EXCEPT ![p] = @
                    \cup ErrorLines("Failed to fetch API token", "", answer)
                    \cup {Entry("info", "Fetching", jobs[j].label,
                                IF jobs[j].hasParams THEN NumStr(me.limit) ELSE "")
                          : j \in JobIds}]
        /\ proc' = [proc EXCEPT ![p].pc = "jobs", ![p].token = Undefined,
                                ![p].jobs = [j \in JobIds |-> PendingJob]]
        /\ http' = Answer(p, 0, answer)
                   \cup {GetRequest(p, j, jobs[j], Undefined, me.limit) : j \in JobIds}

\* the token exchange failed: getToken logs and throws 'Failed to fetch API token.',
\* main's catch logs 'Script failed' and calls process.exit(1)
TokenFailed(p, answer) ==
    /\ log' = [log EXCEPT ![p] = @
                \cup ErrorLines("Failed to fetch API token", "", answer)
                \cup {Entry("error", "Script failed", "", "Failed to fetch API token.")}]
    /\ proc' = [proc EXCEPT ![p].pc = "exited", ![p].exitCode = 1]
    /\ http' = Answer(p, 0, answer)

TokenResponse(p) ==
    /\ proc[p].pc = "token"
    /\ \E answer \in TokenAnswers :
          IF Failed(answer) THEN TokenFailed(p, answer) ELSE TokenSucceeded(p, answer)
    /\ UNCHANGED <<files, writes, outputDir, clock>>
    /\ UNCHANGED schedVars

\* ------------------------------------------------- a job, after its GET settles
\* catch (error) { log(`Failed to fetch ...: ${error.message}`, 'error'); return null; }
\* the async function returns, so its promise is fulfilled with null
JobCatch(job, message) ==
    [lines |-> {Entry("error", "Failed to fetch", job.label, message)},
     promise |-> [status |-> "fulfilled", value |-> "null"]]

\* log(`Retrieved ${response.results?.length || 0} ...`): only the course-data jobs
\* log it; response.results throws a TypeError when response is null
RetrievedCount(body) == IF body.hasResults THEN body.n ELSE 0

\* the body of a job from the answer of its GET to its return: what it logs, whether
\* it creates output/, whether it writes its file, and how its promise settles.
\* fs is what the file system does for this job
JobRun(script, job, answer, fs, dirExists) ==
    LET data == script = "fetch-course-data"
        saved == {Entry("success", "saved to", job.label, "")}
        result(mkdir, wrote, lines, promise) ==
            [mkdir |-> mkdir, wrote |-> wrote, lines |-> lines, promise |-> promise]
        caught(mkdir, wrote, before, message) ==
            result(mkdir, wrote, before \cup JobCatch(job, message).lines,
                   JobCatch(job, message).promise)
    IN  IF Failed(answer)
        THEN \* apiRequest logs and rethrows, the job catches
             caught(FALSE, FALSE, ErrorLines("API request failed", job.endpoint, answer),
                    ErrorMessage(answer))
        ELSE IF ~dirExists /\ fs = "mkdirThrows"
        THEN caught(FALSE, FALSE, {}, "EACCES: mkdir")
        ELSE IF fs = "writeThrows"
        THEN caught(~dirExists, FALSE, {}, "EACCES: open")
        ELSE IF data /\ answer.body.isNull
        THEN caught(~dirExists, TRUE, saved, "Cannot read properties of null")
        ELSE result(~dirExists, TRUE,
                    saved \cup (IF data
                                THEN {Entry("info", "Retrieved", job.label,
                                            ToString(RetrievedCount(answer.body)))}
                                ELSE {}),
                    [status |-> "fulfilled", value |-> "response"])

\* the GET of job j of run p is answered by one of `answers` and the file system
\* behaves as one of `fss`
JobResponseWith(p, j, answers, fss) ==
    /\ proc[p].pc = "jobs"
    /\ proc[p].jobs[j].status = "pending"
    /\ \E answer \in answers, fs \in fss :
          LET job == JobsOf(proc[p].script)[j]
              r == JobRun(proc[p].script, job, answer, fs, outputDir)
              path == OutputPath(job.kind, FileTimestamp(clock))
          IN  /\ fs = "mkdirThrows" => ~outputDir
              /\ http' = Answer(p, j, answer)
              /\ outputDir' = (outputDir \/ r.mkdir)
              /\ files' = IF r.wrote
                          THEN {f \in files : f.path # path}
                               \cup {[path |-> path, body |-> answer.body]}
                          ELSE files
              /\ writes' = IF r.wrote
                           THEN writes \cup {[proc |-> p, job |-> j, kind |-> job.kind,
                                              path |-> path, time |-> clock,
                                              existed |-> \E f \in files : f.path = path]}
                           ELSE writes
              /\ log' = [log EXCEPT ![p] = @ \cup r.lines]
              /\ proc' = [proc EXCEPT ![p].jobs[j] = r.promise]
    /\ UNCHANGED clock
    /\ UNCHANGED schedVars

JobResponse(p, j) == JobResponseWith(p, j, GetAnswers, FsOutcomes)

\* -------------------------------------------- main, after await allSettled
\* (variant: the join resolves as soon as one promise has settled, as Promise.race does)
AnySettled(jobs) == \E j \in JobIds : jobs[j].status \in {"fulfilled", "rejected"}

\* Promise.allSettled resolves once no promise is pending
AllSettled(jobs) == \A j \in JobIds : jobs[j].status \in {"fulfilled", "rejected"}

\* status === 'fulfilled' ? 'Success' : 'Failed'
Verdict(promise) == IF promise.status = "fulfilled" THEN "Success" ELSE "Failed"

Summary(p) ==
    /\ proc[p].pc = "jobs"
    /\ AllSettled(proc[p].jobs)
    /\ LET jobs == JobsOf(proc[p].script)
       IN  log' = [log EXCEPT ![p] = @
                    \cup {Entry("info", "=== FETCH RESULTS ===", "", "")}
                    \cup {Entry("info", "result", jobs[j].title, Verdict(proc[p].jobs[j]))
                          : j \in JobIds}
                    \cup {Entry("error", "Error", jobs[j].title, "")
                          : j \in {k \in JobIds : proc[p].jobs[k].status = "rejected"}}
                    \cup {Entry("success", "Script completed!", "", "")}]
    /\ proc' = [proc EXCEPT ![p].pc = "done", ![p].exitCode = 0]
    /\ UNCHANGED <<http, files, writes, outputDir, clock>>
    /\ UNCHANGED schedVars

\* ------------------------------------------------------------------ the clock
ClockStarts == {0, 59998}

ClockTick ==
    /\ \E s \in ClockStarts : s <= clock /\ clock < s + MaxAdvance
    /\ clock' = clock + 1
    /\ UNCHANGED <<proc, log, http, files, writes, outputDir>>
    /\ UNCHANGED schedVars

\* ------------------------------------------------------------ scheduler.js
Children == 1..MaxSpawns

\* the code a child closes with: a number, or null when a signal ended it
Code(n) == [null |-> FALSE, n |-> n]
NullCode == [null |-> TRUE, n |-> 0]
NoCode == [null |-> FALSE, n |-> -1]
\* fetch-help-endpoints.js exits with 0 or 1; a signal gives null
ExitCodes == {Code(0), Code(1), NullCode}
\* a child that could not be spawned closes, if it does, with a negative errno
SpawnFailCodes == {Code(-2)}
CodeStr(code) == IF code.null THEN "null" ELSE ToString(code.n)

SchedEntry(msg, arg) == [msg |-> msg, arg |-> arg]
RunningMsg == SchedEntry("Running fetch-help-endpoints.js...", "")
StartedMsgs == {SchedEntry("Scheduler started", ""), SchedEntry("Press Ctrl+C to stop", "")}
CompletedMsg == SchedEntry("Script completed successfully", "")
ExitedMsg(code) == SchedEntry("Script exited with code", CodeStr(code))
ErrorMsg == SchedEntry("Error running script", "")
SchedMsgs ==
    {RunningMsg, CompletedMsg, ErrorMsg} \cup StartedMsgs
    \cup {ExitedMsg(code) : code \in ExitCodes \cup SpawnFailCodes}

\* log(m) for every m of ms
Logged(ms) == [m \in SchedMsgs |-> schedLog[m] + (IF m \in ms THEN 1 ELSE 0)]

spawned == Cardinality({c \in Children : child[c].state # "none"})
Running == {c \in Children : child[c].state = "running"}

\* (variant: a tick is skipped while a child is still running)
runScriptUnlessRunning(after) ==
    /\ Running = {}
    /\ child' = [child EXCEPT ![spawned + 1] = [state |-> "running", code |-> NoCode]]
    /\ schedLog' = [m \in SchedMsgs |->
                      Logged({RunningMsg})[m] + (IF m \in after THEN 1 ELSE 0)]

\* runScript(): logs and spawns one more child, whatever the earlier children do;
\* `after` is what the caller logs in the same turn
runScript(after) ==
    /\ child' = [child EXCEPT ![spawned + 1] = [state |-> "running", code |-> NoCode]]
    /\ schedLog' = [m \in SchedMsgs |->
                      Logged({RunningMsg})[m] + (IF m \in after THEN 1 ELSE 0)]

\* the module body: runScript(); setInterval(runScript, 15 min); two log lines
SchedStart ==
    /\ sched.pc = "start"
    /\ runScript(StartedMsgs)
    /\ sched' = [sched EXCEPT !.pc = "armed", !.timer = TRUE]
    /\ UNCHANGED runVars

\* the interval timer fires
TimerTick ==
    /\ sched.alive /\ sched.timer
    /\ spawned < MaxSpawns
    /\ runScript({})
    /\ UNCHANGED sched
    /\ UNCHANGED runVars

\* (variant: a child that fails takes the scheduler down with it)
onCloseExitOnFailure(c, code) ==
    /\ child' = [child EXCEPT ![c] = [state |-> "closed", code |-> code]]
    /\ schedLog' = Logged({IF code = Code(0) THEN CompletedMsg ELSE ExitedMsg(code)})
    /\ sched' = IF code = Code(0) THEN sched
                ELSE [sched EXCEPT !.alive = FALSE, !.timer = FALSE]

\* child.on('close', (code) => ...)
onClose(c, code) ==
    /\ child' = [child EXCEPT ![c] = [state |-> "closed", code |-> code]]
    /\ schedLog' = Logged({IF code = Code(0) THEN CompletedMsg ELSE ExitedMsg(code)})
    /\ UNCHANGED sched

ChildClose(c) ==
    /\ sched.alive
    /\ child[c].state \in {"running", "errored"}
    /\ \E code \in (IF child[c].state = "errored" THEN SpawnFailCodes ELSE ExitCodes) :
          onClose(c, code)
    /\ UNCHANGED runVars

\* child.on('error', ...): the child could not be spawned
onError(c) ==
    /\ child' = [child EXCEPT ![c].state = "errored"]
    /\ schedLog' = Logged({ErrorMsg})
    /\ UNCHANGED sched

ChildError(c) ==
    /\ sched.alive
    /\ child[c].state = "running"
    /\ onError(c)
    /\ UNCHANGED runVars

\* ------------------------------------------------------------ specifications
InitProc(script, env, argv) ==
    [script |-> script, env |-> env, argv |-> argv, pc |-> "start", exitCode |-> -1,
     limit |-> NoNum, token |-> Undefined, jobs |-> [j \in JobIds |-> NotStarted]]
Absent == [InitProc("fetch-help-endpoints", GoodEnv, <<>>) EXCEPT !.pc = "absent"]

RunInit ==
    /\ log = [p \in Procs |-> {}]
    /\ http = {}
    /\ files = {}
    /\ writes = {}
    /\ outputDir \in BOOLEAN
    /\ clock \in ClockStarts

SchedIdle ==
    /\ sched = [pc |-> "start", timer |-> FALSE, alive |-> TRUE]
    /\ child = [c \in Children |-> [state |-> "none", code |-> NoCode]]
    /\ schedLog = [m \in SchedMsgs |-> 0]

\* one run of either script, with any environment and any command line
Init ==
    /\ \E s \in Scripts, e \in Envs, a \in Argvs :
          /\ s = "fetch-help-endpoints" => a = <<>>
          /\ proc = [p \in Procs |-> IF p = 1 THEN InitProc(s, e, a) ELSE Absent]
    /\ RunInit
    /\ SchedIdle

RunNext ==
    \/ \E p \in Procs : MainStart(p)
    \/ \E p \in Procs : TokenResponse(p)
    \/ \E p \in Procs, j \in JobIds : JobResponse(p, j)
    \/ \E p \in Procs : Summary(p)
    \/ ClockTick

Next == RunNext

Spec == Init /\ [][Next]_vars

\* several runs of one script side by side (what the scheduler's overlapping
\* children, or a user starting a script again, produce), with credentials set
\* In these runs a GET is answered by a collection or by a 500 and the file system
\* works: the answers' bodies and the file system's failures play no part in the
\* names of the files.
RunsAnswers == {GetOk(Body(FALSE, TRUE, 3)), HttpError(500)}

RunsInit ==
    /\ \E s \in Scripts : proc = [p \in Procs |-> InitProc(s, GoodEnv, <<>>)]
    /\ log = [p \in Procs |-> {}]
    /\ http = {} /\ files = {} /\ writes = {} /\ outputDir = FALSE
    /\ clock = 59998
    /\ SchedIdle

RunsNext ==
    \/ \E p \in Procs : MainStart(p)
    \/ \E p \in Procs : TokenResponse(p)
    \/ \E p \in Procs, j \in JobIds : JobResponseWith(p, j, RunsAnswers, {"ok"})
    \/ \E p \in Procs : Summary(p)
    \/ ClockTick

RunsSpec == RunsInit /\ [][RunsNext]_vars

\* the scheduler process
SchedInit ==
    /\ proc = [p \in Procs |-> Absent]
    /\ log = [p \in Procs |-> {}]
    /\ http = {} /\ files = {} /\ writes = {} /\ outputDir = FALSE /\ clock = 0
    /\ SchedIdle

SchedNext ==
    \/ SchedStart
    \/ TimerTick
    \/ \E c \in Children : ChildClose(c)
    \/ \E c \in Children : ChildError(c)

SchedSpec == SchedInit /\ [][SchedNext]_vars

\* the timer keeps firing and the module body runs
FairSchedSpec == SchedSpec /\ WF_vars(SchedStart) /\ WF_vars(TimerTick)

\* ===================================================================== claims
Says(p, level, msg, subject, arg) == Entry(level, msg, subject, arg) \in log[p]
RequestsOf(p) == {r \in http : r.proc = p}
WritesOf(p, j) == {w \in writes : w.proc = p /\ w.job = j}
LabelOf(p, j) == JobsOf(proc[p].script)[j].label
TitleOf(p, j) == JobsOf(proc[p].script)[j].title
\* job j of run p logged 'Failed to fetch ...'
LoggedFailure(p, j) ==
    \E e \in log[p] : e.msg = "Failed to fetch" /\ e.subject = LabelOf(p, j)
\* the file system refused a mkdir or a write of run p
FsFault(p) ==
    \E e \in log[p] : e.msg = "Failed to fetch" /\ e.arg \in {"EACCES: mkdir", "EACCES: open"}
Live(p) == proc[p].pc \notin {"absent", "start"}

\* C1: in both one-shot runners, when ACCESS_PLANIT_USER or ACCESS_PLANIT_PASS is
\* missing or empty the run issues no HTTP request at all (no token POST, no GET)
\* and, once main has run, the process has exited with code 1.
C1_MissingCredentialsExitBeforeHttp ==
    \A p \in Procs :
        (proc[p].env.user \in {Undefined, ""} \/ proc[p].env.pass \in {Undefined, ""})
        => /\ RequestsOf(p) = {}
           /\ Live(p) => proc[p].pc = "exited" /\ proc[p].exitCode = 1

\* a run whose password is empty (the user name is set) has exited
C1_Witness ==
    \E p \in Procs :
        /\ proc[p].env.user = "alice" /\ proc[p].env.pass = ""
        /\ proc[p].pc = "exited"

\* C2 (as claimed): in a completed run whose token exchange succeeded and in which
\* the GET of exactly one of the two jobs failed, the results summary reports the
\* job whose GET failed as Failed and the other job as Success.
C2_SummaryOneSuccessOneFailure ==
    \A p \in Procs :
        (/\ proc[p].pc = "done"
         /\ Cardinality({j \in JobIds : Failed(Exchange(p, j).answer)}) = 1)
        => \A j \in JobIds :
              /\ Says(p, "info", "result", TitleOf(p, j),
                      IF Failed(Exchange(p, j).answer) THEN "Failed" ELSE "Success")
              /\ ~Says(p, "info", "result", TitleOf(p, j),
                       IF Failed(Exchange(p, j).answer) THEN "Success" ELSE "Failed")

\* C3: in a course-data run whose token exchange fails (no response, or a status
\* such as 401), no GET is issued, no job is started, no file is written, the
\* failure is logged, with the response status when there is a response, and the
\* process exits with code 1.
C3_TokenFailureIsFatal ==
    \A p \in Procs :
        (/\ proc[p].script = "fetch-course-data"
         /\ Issued(p, 0)
         /\ Exchange(p, 0).answer.status \notin {-1, 200})
        => /\ \A r \in RequestsOf(p) : r.method # "GET"
           /\ \A j \in JobIds : proc[p].jobs[j] = NotStarted /\ WritesOf(p, j) = {}
           /\ \E e \in log[p] : e.level = "error" /\ e.msg = "Failed to fetch API token"
           /\ Exchange(p, 0).answer.status # 0
                => Says(p, "error", "Response status", "",
                        ToString(Exchange(p, 0).answer.status))
           /\ proc[p].pc = "exited" /\ proc[p].exitCode = 1

\* a course-data run whose token exchange was answered 401
C3_Witness ==
    \E p \in Procs :
        /\ proc[p].script = "fetch-course-data"
        /\ Issued(p, 0) /\ Exchange(p, 0).answer.status = 401
        /\ proc[p].pc = "exited"

\* C4 (as claimed, for runs in which the file system works): in a completed
\* course-data run where the GET of one job was answered 200 and the GET of the
\* other with an HTTP error, the first job's file is written, the other job's is
\* not, a failure is logged for the other job and none for the first, and the exit
\* code is 0.
C4_OneJobFailsOtherFileWritten ==
    \A p \in Procs : \A ok \in JobIds : \A ko \in JobIds \ {ok} :
        (/\ proc[p].script = "fetch-course-data"
         /\ proc[p].pc = "done"
         /\ ~FsFault(p)
         /\ Exchange(p, ok).answer.status = 200
         /\ Exchange(p, ko).answer.status >= 400)
        => /\ \E w \in WritesOf(p, ok) : \E f \in files : f.path = w.path
           /\ WritesOf(p, ko) = {}
           /\ LoggedFailure(p, ko)
           /\ ~LoggedFailure(p, ok)
           /\ proc[p].exitCode = 0

\* the children that closed with `code`
ClosedWith(code) == {c \in Children : child[c].state = "closed" /\ child[c].code = code}

\* C5: a timer tick spawns a child whatever the earlier children are doing (the
\* tick is enabled whenever the timer is armed, up to the model's MaxSpawns), every
\* spawn is logged, and every child that closed has logged its own completion
\* entry: 'completed successfully' for code 0, 'exited with code <code>' otherwise.
C5_NoOverlapGuardEachCloseLogged ==
    /\ (sched.alive /\ sched.timer /\ spawned < MaxSpawns) => ENABLED TimerTick
    /\ schedLog[RunningMsg] = spawned
    /\ schedLog[CompletedMsg] = Cardinality(ClosedWith(Code(0)))
    /\ \A code \in (ExitCodes \cup SpawnFailCodes) \ {Code(0)} :
          schedLog[ExitedMsg(code)] = Cardinality(ClosedWith(code))

\* two children run at the same time while an earlier one has closed
C5_Witness ==
    /\ Cardinality(Running) >= 2
    /\ \E c \in Children : child[c].state = "closed"

\* C6: the first child is spawned before the timer is armed; no step (no close
\* code, no spawn error) ever cancels the timer or ends the scheduler; and with
\* the timer firing fairly the number of children spawned reaches MaxSpawns,
\* whatever the bound is.
C6_SpawnsForeverNeverStops ==
    /\ [](sched.timer => spawned >= 1)
    /\ [][sched.alive' /\ (sched.timer => sched.timer')]_vars
    /\ <>(spawned = MaxSpawns)

\* a child failed, another could not be spawned, and a later child was spawned
\* all the same by the scheduler, which is still alive with its timer armed
C6_Witness ==
    /\ sched.alive /\ sched.timer
    /\ \E c1, c2, c3 \in Children :
          /\ c1 < c3 /\ c2 < c3
          /\ child[c1].state = "closed" /\ child[c1].code = Code(1)
          /\ child[c2].state = "errored"
          /\ child[c3].state = "running"

\* C7 (as claimed): no writeFileSync ever targets a path that an earlier write
\* created.
C7_NoWriteTargetsExistingPath == \A w \in writes : ~w.existed

\* C7 (amended): two writes target the same path only when they are writes of the
\* same kind of file made at the same millisecond; so a write finds its path
\* existing only then.
C7_SamePathOnlySameKindSameMillisecond ==
    /\ \A w1, w2 \in writes :
          w1.path = w2.path => w1.kind = w2.kind /\ w1.time = w2.time
    /\ \A w \in writes :
          w.existed => \E w0 \in writes \ {w} : w0.kind = w.kind /\ w0.time = w.time

\* two runs wrote the same kind of file at different milliseconds of the same
\* second, and neither found its path existing
C7_Witness ==
    \E w1, w2 \in writes :
        /\ w1.proc # w2.proc /\ w1.kind = w2.kind
        /\ w1.time # w2.time /\ w1.time \div 1000 = w2.time \div 1000
        /\ ~w1.existed /\ ~w2.existed
        /\ \E f1, f2 \in files : f1.path = w1.path /\ f2.path = w2.path /\ f1 # f2

\* an integer literal: an optional minus sign and decimal digits
IsIntegerLiteral(tok) ==
    LET ds == IF tok # <<>> /\ Head(tok) = "-" THEN Tail(tok) ELSE tok
    IN  ds # <<>> /\ \A i \in DOMAIN ds : ds[i] \in Digits
RECURSIVE LiteralValue(_, _)
LiteralValue(ds, acc) ==
    IF ds = <<>> THEN acc ELSE LiteralValue(Tail(ds), 10 * acc + DigitVal(Head(ds)))
HasDigit(tok) == \E i \in DOMAIN tok : tok[i] \in Digits
FlagAt(args) == CHOOSE i \in DOMAIN args : args[i] = LimitFlag /\ \A k \in 1..(i - 1) : args[k] # LimitFlag

\* C8 (as claimed): the top parameter of both data GETs is the integer after
\* --limit when an integer literal follows the flag, and 10 when the flag is
\* absent, when nothing follows it, or when what follows is non-numeric (holds no
\* digit at all); values that mix digits with other characters are left open.
C8_TopIsLimitOrTen ==
    \A r \in http :
        (r.method = "GET" /\ r.hasParams) =>
            LET args == proc[r.proc].argv
                given == \E i \in DOMAIN args : args[i] = LimitFlag
                value == IF given /\ FlagAt(args) + 1 \in DOMAIN args
                         THEN args[FlagAt(args) + 1] ELSE <<>>
            IN  /\ (given /\ IsIntegerLiteral(value)) =>
                      r.top = Num(IF Head(value) = "-"
                                  THEN 0 - LiteralValue(Tail(value), 0)
                                  ELSE LiteralValue(value, 0))
                /\ (~given \/ ~HasDigit(value)) => r.top = Num(10)
                /\ r.endpoint = apiConfig.courseTemplatesEndpoint => r.orderby = "Name asc"

\* C9: in every one-shot run a GET is issued only after the one token exchange was
\* answered 200, and the summary, the completion line and the end of the process
\* come only when no job is pending and every GET has been answered.
C9_TokenFirstSummaryAfterAllSettled ==
    \A p \in Procs :
        /\ Cardinality({r \in RequestsOf(p) : r.method = "POST"}) <= 1
        /\ (\E r \in RequestsOf(p) : r.method = "GET")
              => Issued(p, 0) /\ Exchange(p, 0).answer.status = 200
        /\ (\/ Says(p, "info", "=== FETCH RESULTS ===", "", "")
            \/ Says(p, "success", "Script completed!", "", "")
            \/ \E e \in log[p] : e.msg = "result"
            \/ proc[p].pc \in {"done", "exited"})
              => /\ \A j \in JobIds : proc[p].jobs[j].status # "pending"
                 /\ \A r \in RequestsOf(p) : r.answer.status # -1

\* one job has failed while its sibling is still in flight, and nothing of the
\* summary has been logged
C9_Witness ==
    \E p \in Procs : \E j \in JobIds : \E k \in JobIds \ {j} :
        /\ proc[p].pc = "jobs"
        /\ LoggedFailure(p, j) /\ proc[p].jobs[j].value = "null"
        /\ proc[p].jobs[k].status = "pending"
        /\ ~Says(p, "info", "=== FETCH RESULTS ===", "", "")

\* C10 (as claimed): a job that logged 'Failed to fetch ...' has written no file.
C10_FailedJobWroteNoFile ==
    \A p \in Procs : \A j \in JobIds :
        (Live(p) /\ LoggedFailure(p, j)) => WritesOf(p, j) = {}

====
